---- MODULE Spec2Model ----
(***************************************************************************)
(* Model of src/pipelines/ingest_raw.py: the ingestion pipeline that loads *)
(* staged *.jsonl batches into raw_events with ON CONFLICT DO NOTHING,     *)
(* records one ingestion_runs row per attempt and then moves the batch to  *)
(* the archive directory.                                                  *)
(*                                                                         *)
(* One Orchestrator instance is one run of main().  The statements of      *)
(* main / ingest_one_file / load_jsonl_file are the steps of a process;    *)
(* every SQL statement and every file-system call is one atomic step.      *)
(* The store is PostgreSQL at its default isolation level (READ COMMITTED):*)
(* an INSERT ... ON CONFLICT DO NOTHING that meets an uncommitted row with *)
(* the same key waits for the inserting transaction to finish, and a cycle *)
(* of such waits is broken by aborting one of the waiters with an error.   *)
(*                                                                         *)
(* The module also models generate_events of src/pipelines/                *)
(* generate_events.py, the producer of the batches: one step per generated *)
(* session, every random draw a nondeterministic choice, uuid4 a fresh     *)
(* value.                                                                  *)
(***************************************************************************)
EXTENDS Integers, Sequences, FiniteSets, TLC

\* ---------------------------------------------------------------- bounds
\* total number of ingest attempts (run_ids handed out by uuid4)
MaxAttempts == 3
\* number of batches the producer drops into data/incoming after the start
MaxArrivals == 1
\* largest --rows given to the generator
MaxRows == 3
\* largest --users given to the generator
MaxUsers == 1

\* ---------------------------------------------------------------- domains
\* Orchestrator instances (processes running main)
Procs == {1, 2}
\* names of *.jsonl files; the numeric order stands for the lexical order
Files == {1, 2}

\* one line of a batch file
Blank == [kind |-> "blank", event_id |-> "-", payload |-> "-"]
Bad   == [kind |-> "bad",   event_id |-> "-", payload |-> "-"]
NoId  == [kind |-> "noid",  event_id |-> "-", payload |-> "p1"]
Rec(id, pl) == [kind |-> "rec", event_id |-> id, payload |-> pl]

\* the batch contents the producer may have written
Batches ==
  { << Rec("A", "p1"), Rec("B", "p1"), Rec("A", "p2") >>,
    << Rec("B", "p2"), Rec("A", "p1") >>,
    << Rec("A", "p1"), Bad, Rec("B", "p1") >>,
    << Rec("B", "p1"), NoId >>,
    << Blank >>,
    << Blank, Rec("A", "none") >> }

\* contents of raw_events before the first run
InitStores == { {}, {[event_id |-> "A", payload |-> "p0"]} }

VARIABLES
  incoming,        \* data/incoming: file name -> content, for the staged files
  archive,         \* data/archive:  file name -> content
  raw_events,      \* committed rows of raw_events
  ingestion_runs,  \* committed rows of ingestion_runs
  pc,              \* position of each process
  files,           \* main: the sorted glob result
  idx,             \* main: index in files of the batch being attempted
  f,               \* load_jsonl_file: content seen through the open file
  pos,             \* load_jsonl_file: number of lines consumed
  rows_in_file,    \* load_jsonl_file
  rows_loaded,     \* load_jsonl_file
  txn,             \* uncommitted raw_events rows of the open transaction
  txn_run,         \* uncommitted ingestion_runs rows of the open transaction
  run_id,          \* ingest_one_file: run_id of the current attempt
  exit_status,     \* exit status of the process, -1 while it has none
  error,           \* the exception ingest_one_file re-raised, "" if none
  uuid_next,       \* number of run_ids handed out so far
  arrivals,        \* number of batches dropped after the start
  loaded_once,     \* history: contents of the batches whose load has committed
  killed,          \* history: <<name, content>> of the batches whose process
                   \* was killed between the commit and archive_file
  rows,            \* generate_events: argument rows
  users,           \* generate_events: argument users
  all_events,      \* generate_events: the list all_events
  result,          \* generate_events: the list it returned
  gen_pc,          \* generate_events: "idle", "loop", "returned" or "raised"
  gen_uuid         \* number of uuid4 values the generator has drawn

vars == << incoming, archive, raw_events, ingestion_runs, pc, files, idx, f,
           pos, rows_in_file, rows_loaded, txn, txn_run, run_id, exit_status,
           error, uuid_next, arrivals, loaded_once, killed, rows, users,
           all_events, result, gen_pc, gen_uuid >>

fsVars    == << incoming, archive >>
storeVars == << raw_events, ingestion_runs >>
loadVars  == << f, pos, rows_in_file, rows_loaded >>
histVars  == << loaded_once, killed >>
genVars   == << rows, users, all_events, result, gen_pc, gen_uuid >>

\* ---------------------------------------------------------------- helpers
RECURSIVE SortedDescending(_)
SortedDescending(S) ==
  IF S = {} THEN << >>
  ELSE LET m == CHOOSE x \in S : \A y \in S : x >= y
       IN  << m >> \o SortedDescending(S \ {m})

RECURSIVE SortedSeq(_)
\* sorted(INCOMING_DIR.glob("*.jsonl"))
SortedSeq(S) ==
  IF S = {} THEN << >>
  ELSE LET m == CHOOSE x \in S : \A y \in S : x <= y
       IN  << m >> \o SortedSeq(S \ {m})

EventIds(table) == { r.event_id : r \in table }

\* event_ids of the records of a batch
BatchIds(b) == { b[i].event_id : i \in { j \in 1..Len(b) : b[j].kind = "rec" } }

\* payload = obj.get("payload") or {} ; json.dumps(payload)
PayloadJson(line) == IF line.payload = "none" THEN "{}" ELSE line.payload

\* the row INSERT_SQL is executed with
RowOf(line) == [event_id |-> line.event_id, payload |-> PayloadJson(line)]

RowcountAlwaysOne(visible, row) == 1

\* cur.rowcount after INSERT ... ON CONFLICT (event_id) DO NOTHING
Rowcount(visible, row) ==
  IF row.event_id \in EventIds(visible) THEN 0 ELSE 1

InsertedNoConflictClause(visible, row) == {row}

\* rows INSERT ... ON CONFLICT (event_id) DO NOTHING adds to the transaction
Inserted(visible, row) ==
  IF row.event_id \in EventIds(visible) THEN {} ELSE {row}

FileStatsSwapped(in_file, loaded) ==
  [rows_in_file |-> in_file, rows_loaded |-> loaded,
   rows_deduped |-> loaded - in_file]

\* FileStats(rows_in_file, rows_loaded, rows_in_file - rows_loaded)
FileStats(in_file, loaded) ==
  [rows_in_file |-> in_file, rows_loaded |-> loaded,
   rows_deduped |-> in_file - loaded]

RunRowIdFromFile(rid, name, stats, status, error_message) ==
  [run_id |-> name, file_name |-> name,
   rows_in_file |-> stats.rows_in_file, rows_loaded |-> stats.rows_loaded,
   rows_deduped |-> stats.rows_deduped,
   status |-> status, error_message |-> error_message]

\* the row insert_ingestion_run writes
RunRow(rid, name, stats, status, error_message) ==
  [run_id |-> rid, file_name |-> name,
   rows_in_file |-> stats.rows_in_file, rows_loaded |-> stats.rows_loaded,
   rows_deduped |-> stats.rows_deduped,
   status |-> status, error_message |-> error_message]

IsBlankNever(line) == FALSE

\* line = line.strip(); if not line: continue
IsBlank(line) == line.kind = "blank"

\* the path ingest_one_file was called with
Path(p) == files[p][idx[p]]

\* the other transactions' uncommitted rows
OthersTxn(p) == UNION { txn[q] : q \in Procs \ {p} }

\* the line the loop of load_jsonl_file is about to read
NextLine(p) == f[p][pos[p] + 1]

\* the INSERT of p's next line has to wait for another transaction
Waits(p) ==
  /\ pc[p] = "loading"
  /\ pos[p] < Len(f[p])
  /\ NextLine(p).kind = "rec"
  /\ NextLine(p).event_id \notin EventIds(raw_events \cup txn[p])
  /\ NextLine(p).event_id \in EventIds(OthersTxn(p))

\* ---------------------------------------------------------------- Init
Init ==
  /\ incoming \in UNION { [D -> Batches] : D \in SUBSET Files }
  /\ archive = << >>
  /\ raw_events \in InitStores
  /\ ingestion_runs = {}
  /\ pc = [p \in Procs |-> "idle"]
  /\ files = [p \in Procs |-> << >>]
  /\ idx = [p \in Procs |-> 0]
  /\ f = [p \in Procs |-> << >>]
  /\ pos = [p \in Procs |-> 0]
  /\ rows_in_file = [p \in Procs |-> 0]
  /\ rows_loaded = [p \in Procs |-> 0]
  /\ txn = [p \in Procs |-> {}]
  /\ txn_run = [p \in Procs |-> {}]
  /\ run_id = [p \in Procs |-> 0]
  /\ exit_status = [p \in Procs |-> -1]
  /\ error = [p \in Procs |-> ""]
  /\ uuid_next = 0
  /\ arrivals = 0
  /\ loaded_once = {}
  /\ killed = {}
  /\ rows = 0
  /\ users = 0
  /\ all_events = << >>
  /\ result = << >>
  /\ gen_pc = "idle"
  /\ gen_uuid = 0

\* ---------------------------------------------------------------- actions
\* what is left of a process's locals when it is not inside an attempt
ResetLoad(p) ==
  /\ f' = [f EXCEPT ![p] = << >>]
  /\ pos' = [pos EXCEPT ![p] = 0]
  /\ rows_in_file' = [rows_in_file EXCEPT ![p] = 0]
  /\ rows_loaded' = [rows_loaded EXCEPT ![p] = 0]

RaisedCommitsOnExit(committed, pending) == committed \cup pending

\* what a table holds after the "with psycopg.connect(dsn) as conn" block is
\* left by an exception: the open transaction is rolled back
Raised(committed, pending) == committed

RaiseExitsZero(p, e) ==
  /\ raw_events' = Raised(raw_events, txn[p])
  /\ ingestion_runs' = Raised(ingestion_runs, txn_run[p])
  /\ txn' = [txn EXCEPT ![p] = {}]
  /\ txn_run' = [txn_run EXCEPT ![p] = {}]
  /\ pc' = [pc EXCEPT ![p] = "failed"]
  /\ exit_status' = [exit_status EXCEPT ![p] = 0]
  /\ error' = [error EXCEPT ![p] = e]
  /\ ResetLoad(p)
  /\ UNCHANGED << fsVars, files, idx, run_id, uuid_next, arrivals, histVars,
                  genVars >>

\* "except Exception as e: raise RuntimeError(...)" in ingest_one_file: no
\* caller catches it, so main ends there and the process exits with status 1
Raise(p, e) ==
  /\ raw_events' = Raised(raw_events, txn[p])
  /\ ingestion_runs' = Raised(ingestion_runs, txn_run[p])
  /\ txn' = [txn EXCEPT ![p] = {}]
  /\ txn_run' = [txn_run EXCEPT ![p] = {}]
  /\ pc' = [pc EXCEPT ![p] = "failed"]
  /\ exit_status' = [exit_status EXCEPT ![p] = 1]
  /\ error' = [error EXCEPT ![p] = e]
  /\ ResetLoad(p)
  /\ UNCHANGED << fsVars, files, idx, run_id, uuid_next, arrivals, histVars,
                  genVars >>

\* main from its first statement: glob the staging directory; return when
\* there is nothing to do
Start(p) ==
  LET found == SortedSeq(DOMAIN incoming)
  IN  /\ files' = [files EXCEPT ![p] = found]
      /\ IF found = << >>
         THEN /\ pc' = [pc EXCEPT ![p] = "done"]
              /\ idx' = [idx EXCEPT ![p] = 0]
              /\ exit_status' = [exit_status EXCEPT ![p] = 0]
         ELSE /\ pc' = [pc EXCEPT ![p] = "loop"]
              /\ idx' = [idx EXCEPT ![p] = 1]
              /\ exit_status' = [exit_status EXCEPT ![p] = -1]
      /\ run_id' = [run_id EXCEPT ![p] = 0]
      /\ error' = [error EXCEPT ![p] = ""]
      /\ UNCHANGED << fsVars, storeVars, loadVars, txn, txn_run, uuid_next,
                      arrivals, histVars, genVars >>

\* the first invocation of main by an instance
main(p) ==
  /\ pc[p] = "idle"
  /\ Start(p)

\* the operator runs main again after the instance ended or was killed
rerun(p) ==
  /\ pc[p] \in {"done", "failed", "crashed"}
  /\ Start(p)

\* ingest_one_file up to the first line: uuid4, psycopg.connect, path.open
ingest_one_file(p) ==
  /\ pc[p] = "loop"
  /\ uuid_next < MaxAttempts
  /\ uuid_next' = uuid_next + 1
  /\ run_id' = [run_id EXCEPT ![p] = uuid_next + 1]
  /\ \E connected \in BOOLEAN :
       IF connected /\ Path(p) \in DOMAIN incoming
       THEN /\ pc' = [pc EXCEPT ![p] = "loading"]
            /\ f' = [f EXCEPT ![p] = incoming[Path(p)]]
            /\ pos' = [pos EXCEPT ![p] = 0]
            /\ rows_in_file' = [rows_in_file EXCEPT ![p] = 0]
            /\ rows_loaded' = [rows_loaded EXCEPT ![p] = 0]
            /\ UNCHANGED << fsVars, storeVars, files, idx, txn, txn_run,
                            exit_status, error, arrivals, histVars, genVars >>
       ELSE /\ raw_events' = Raised(raw_events, txn[p])
            /\ ingestion_runs' = Raised(ingestion_runs, txn_run[p])
            /\ pc' = [pc EXCEPT ![p] = "failed"]
            /\ exit_status' = [exit_status EXCEPT ![p] = 1]
            /\ error' = [error EXCEPT ![p] =
                 IF connected THEN "open: FileNotFoundError"
                 ELSE "connect: OperationalError"]
            /\ ResetLoad(p)
            /\ UNCHANGED << fsVars, files, idx, txn, txn_run, arrivals,
                            histVars, genVars >>

\* one iteration of "for line in f" in load_jsonl_file
load_jsonl_file(p) ==
  /\ pc[p] = "loading"
  /\ pos[p] < Len(f[p])
  /\ LET line == NextLine(p)
         visible == raw_events \cup txn[p]
     IN  CASE IsBlank(line) ->
                /\ pos' = [pos EXCEPT ![p] = pos[p] + 1]
                /\ UNCHANGED << fsVars, storeVars, pc, files, idx, f,
                                rows_in_file, rows_loaded, txn, txn_run,
                                run_id, exit_status, error, uuid_next,
                                arrivals, histVars, genVars >>
           [] ~IsBlank(line) /\ line.kind \in {"blank", "bad"} ->
                \* json.loads raises on anything that is not JSON
                Raise(p, "json.loads: JSONDecodeError")
           [] line.kind = "noid" ->
                \* the query parameter event_id is missing
                Raise(p, "execute: ProgrammingError")
           [] line.kind = "rec" ->
                /\ ~Waits(p)
                /\ \E ok \in BOOLEAN :
                     IF ok
                     THEN /\ pos' = [pos EXCEPT ![p] = pos[p] + 1]
                          /\ rows_in_file' =
                               [rows_in_file EXCEPT ![p] = rows_in_file[p] + 1]
                          /\ txn' = [txn EXCEPT ![p] =
                               txn[p] \cup Inserted(visible, RowOf(line))]
                          /\ rows_loaded' = [rows_loaded EXCEPT ![p] =
                               rows_loaded[p] + Rowcount(visible, RowOf(line))]
                          /\ UNCHANGED << fsVars, storeVars, pc, files, idx, f,
                                          txn_run, run_id, exit_status,
                                          error, uuid_next, arrivals,
                                          histVars, genVars >>
                     ELSE \* the store fails the statement
                          Raise(p, "execute: OperationalError")

\* the store breaks a cycle of waiting INSERTs by failing one of them
deadlock_detected(p) ==
  /\ Waits(p)
  /\ \E q \in Procs \ {p} :
       /\ Waits(q)
       /\ NextLine(p).event_id \in EventIds(txn[q])
       /\ NextLine(q).event_id \in EventIds(txn[p])
  /\ Raise(p, "execute: DeadlockDetected")

insert_ingestion_run_autocommit(p) ==
  /\ pc[p] = "loading"
  /\ pos[p] = Len(f[p])
  /\ ingestion_runs' = ingestion_runs \cup
       {RunRow(run_id[p], Path(p), FileStats(rows_in_file[p], rows_loaded[p]),
               "success", "None")}
  /\ pc' = [pc EXCEPT ![p] = "recorded"]
  /\ UNCHANGED << fsVars, raw_events, files, idx, loadVars, txn, txn_run,
                  run_id, exit_status, error, uuid_next, arrivals, histVars,
                  genVars >>

\* end of file: return FileStats, then insert_ingestion_run(..., "success", None)
insert_ingestion_run(p) ==
  /\ pc[p] = "loading"
  /\ pos[p] = Len(f[p])
  /\ txn_run' = [txn_run EXCEPT ![p] =
       {RunRow(run_id[p], Path(p), FileStats(rows_in_file[p], rows_loaded[p]),
               "success", "None")}]
  /\ pc' = [pc EXCEPT ![p] = "recorded"]
  /\ UNCHANGED << fsVars, storeVars, files, idx, loadVars, txn, run_id,
                  exit_status, error, uuid_next, arrivals, histVars, genVars >>

\* conn.commit() and the end of the with block
commit(p) ==
  /\ pc[p] = "recorded"
  /\ \E ok \in BOOLEAN :
       IF ok
       THEN /\ raw_events' = raw_events \cup txn[p]
            /\ ingestion_runs' = ingestion_runs \cup txn_run[p]
            /\ txn' = [txn EXCEPT ![p] = {}]
            /\ txn_run' = [txn_run EXCEPT ![p] = {}]
            /\ pc' = [pc EXCEPT ![p] = "committed"]
            /\ loaded_once' = loaded_once \cup {f[p]}
            /\ UNCHANGED << fsVars, files, idx, loadVars, run_id, exit_status,
                            error, uuid_next, arrivals, killed, genVars >>
       ELSE \* the store fails the commit
            Raise(p, "commit: OperationalError")

ArchivePointInsideTransaction(p) == pc[p] \in {"recorded", "committed"}

\* the place of the archive_file call in ingest_one_file: after the with block
ArchivePoint(p) == pc[p] = "committed"

\* archive_file: shutil.move(path, ARCHIVE_DIR / path.name), then the next
\* iteration of the for loop of main
archive_file(p) ==
  /\ ArchivePoint(p)
  /\ \E moved \in BOOLEAN :
       IF moved /\ Path(p) \in DOMAIN incoming
       THEN /\ archive' = [n \in DOMAIN archive \cup {Path(p)} |->
                             IF n = Path(p) THEN incoming[n] ELSE archive[n]]
            /\ incoming' = [n \in DOMAIN incoming \ {Path(p)} |-> incoming[n]]
            /\ IF idx[p] < Len(files[p])
               THEN /\ pc' = [pc EXCEPT ![p] = "loop"]
                    /\ idx' = [idx EXCEPT ![p] = idx[p] + 1]
                    /\ UNCHANGED exit_status
               ELSE /\ pc' = [pc EXCEPT ![p] = "done"]
                    /\ exit_status' = [exit_status EXCEPT ![p] = 0]
                    /\ UNCHANGED idx
            /\ ResetLoad(p)
            /\ UNCHANGED << storeVars, files, txn, txn_run, run_id, error,
                            uuid_next, arrivals, histVars, genVars >>
       ELSE Raise(p, IF moved THEN "move: FileNotFoundError"
                     ELSE "move: OSError")

\* the process is killed: its open transaction is lost with its connection
crash(p) ==
  /\ pc[p] \in {"loop", "loading", "recorded", "committed"}
  /\ pc' = [pc EXCEPT ![p] = "crashed"]
  /\ txn' = [txn EXCEPT ![p] = {}]
  /\ txn_run' = [txn_run EXCEPT ![p] = {}]
  /\ killed' = IF pc[p] = "committed"
                THEN killed \cup {<< Path(p), f[p] >>} ELSE killed
  /\ run_id' = [run_id EXCEPT ![p] = 0]
  /\ files' = [files EXCEPT ![p] = << >>]
  /\ idx' = [idx EXCEPT ![p] = 0]
  /\ ResetLoad(p)
  /\ UNCHANGED << fsVars, storeVars, exit_status, error, uuid_next, arrivals,
                  loaded_once, genVars >>

\* the producer writes a new batch into data/incoming, under a name that no
\* staged file has
write_jsonl ==
  /\ arrivals < MaxArrivals
  /\ arrivals' = arrivals + 1
  /\ \E n \in Files \ DOMAIN incoming, b \in Batches :
       incoming' = [m \in DOMAIN incoming \cup {n} |->
                      IF m = n THEN b ELSE incoming[m]]
  /\ UNCHANGED << archive, storeVars, pc, files, idx, loadVars, txn, txn_run,
                  run_id, exit_status, error, uuid_next, histVars, genVars >>

Step(p) ==
  \/ main(p)
  \/ ingest_one_file(p)
  \/ load_jsonl_file(p)
  \/ insert_ingestion_run(p)
  \/ commit(p)
  \/ archive_file(p)
  \/ crash(p)

\* two Orchestrator instances, started once each, over the same staging
\* directory and store, while the producer drops new batches
Next ==
  \/ \E p \in Procs : Step(p)
  \/ \E p \in Procs : deadlock_detected(p)
  \/ write_jsonl

Spec == Init /\ [][Next]_vars

\* one Orchestrator instance, run again after it ends or is killed, while the
\* producer drops new batches
NextSeq ==
  \/ Step(1)
  \/ rerun(1)
  \/ write_jsonl

SpecSeq == Init /\ [][NextSeq]_vars

\* the store is empty when the pipeline starts to write it
InitEmpty ==
  /\ Init
  /\ raw_events = {}

\* the two instances and the producer of Spec, on a store that starts empty
SpecEmpty == InitEmpty /\ [][Next]_vars

\* a step of the instance in which nothing fails
NoFailure == pc'[1] # "failed"

\* one invocation of main by one instance that no failure and no kill ends,
\* with nobody else touching the staging directory
NextRun ==
  \/ main(1) /\ NoFailure
  \/ ingest_one_file(1) /\ NoFailure
  \/ load_jsonl_file(1) /\ NoFailure
  \/ insert_ingestion_run(1) /\ NoFailure
  \/ commit(1) /\ NoFailure
  \/ archive_file(1) /\ NoFailure

\* the process keeps executing its next statement
SpecRun == Init /\ [][NextRun]_vars /\ WF_vars(NextRun)

\* ---------------------------------------------------------------- generator
\* event_names of generate_session_events: "open", then one name per reached
\* stage of the funnel
EventNames(do_view, do_cart, do_purchase) ==
  << "open" >>
    \o (IF do_view THEN << "view" >> ELSE << >>)
    \o (IF do_cart THEN << "cart" >> ELSE << >>)
    \o (IF do_purchase THEN << "purchase" >> ELSE << >>)

\* the Event built in iteration i (from 0) of the loop over event_names; the
\* uuid4 of the session was drawn first, then one per event. The times, the
\* device, the product, the price and the payload are drawn values that no
\* statement reads again: each stands as one token, "None" where the code
\* sets None
Event(i, name, sid, user_id) ==
  [event_id     |-> sid + 1 + i,
   event_time   |-> "event_time",
   ingestion_time |-> "ingestion_time",
   device       |-> "device",
   payload      |-> "payload",
   event_name   |-> name,
   user_id      |-> user_id,
   session_id   |-> sid,
   product_id   |-> IF name \in {"view", "cart", "purchase"}
                    THEN "product_id" ELSE "None",
   price        |-> IF name = "purchase" THEN "price" ELSE "None",
   session_step |-> i + 1]

RECURSIVE SessionEvents(_, _, _, _, _)
\* the list events of generate_session_events from iteration i on: e is
\* appended, and appended once more when the duplicate draw says so
SessionEvents(i, names, sid, user_id, dup) ==
  IF i >= Len(names) THEN << >>
  ELSE LET e == Event(i, names[i + 1], sid, user_id)
       IN  (IF dup[i + 1] THEN << e, e >> ELSE << e >>)
             \o SessionEvents(i + 1, names, sid, user_id, dup)

SliceAll(s, n) == s

\* s[:n] for n >= 0
Slice(s, n) == IF n >= Len(s) THEN s ELSE SubSeq(s, 1, n)

\* one iteration of the while loop of generate_events: random.randint(1,
\* users), which raises ValueError on an empty range, then
\* generate_session_events and all_events.extend
generate_session_events ==
  /\ gen_pc = "loop"
  /\ Len(all_events) < rows
  /\ IF users < 1
     THEN /\ gen_pc' = "raised"
          /\ UNCHANGED << all_events, gen_uuid >>
     ELSE \E user_id \in 1..users, r1, r2, r3 \in BOOLEAN :
            LET do_view     == r1
                do_cart     == do_view /\ r2
                do_purchase == do_cart /\ r3
                names       == EventNames(do_view, do_cart, do_purchase)
            IN  \E dup \in [1..Len(names) -> BOOLEAN] :
                  /\ all_events' = all_events \o
                       SessionEvents(0, names, gen_uuid + 1, user_id, dup)
                  /\ gen_uuid' = gen_uuid + 1 + Len(names)
                  /\ UNCHANGED gen_pc
  /\ UNCHANGED << rows, users, result >>
  /\ UNCHANGED << fsVars, storeVars, pc, files, idx, loadVars, txn, txn_run,
                  run_id, exit_status, error, uuid_next, arrivals, histVars >>

\* the while test of generate_events fails: return all_events[:rows]
generate_events ==
  /\ gen_pc = "loop"
  /\ Len(all_events) >= rows
  /\ result' = Slice(all_events, rows)
  /\ gen_pc' = "returned"
  /\ UNCHANGED << rows, users, all_events, gen_uuid >>
  /\ UNCHANGED << fsVars, storeVars, pc, files, idx, loadVars, txn, txn_run,
                  run_id, exit_status, error, uuid_next, arrivals, histVars >>

\* a call generate_events(rows, users, late_event_rate, duplicate_rate), the
\* pipeline at rest
InitGen ==
  /\ incoming = << >>
  /\ archive = << >>
  /\ raw_events = {}
  /\ ingestion_runs = {}
  /\ pc = [p \in Procs |-> "idle"]
  /\ files = [p \in Procs |-> << >>]
  /\ idx = [p \in Procs |-> 0]
  /\ f = [p \in Procs |-> << >>]
  /\ pos = [p \in Procs |-> 0]
  /\ rows_in_file = [p \in Procs |-> 0]
  /\ rows_loaded = [p \in Procs |-> 0]
  /\ txn = [p \in Procs |-> {}]
  /\ txn_run = [p \in Procs |-> {}]
  /\ run_id = [p \in Procs |-> 0]
  /\ exit_status = [p \in Procs |-> -1]
  /\ error = [p \in Procs |-> ""]
  /\ uuid_next = 0
  /\ arrivals = 0
  /\ loaded_once = {}
  /\ killed = {}
  /\ rows \in 0..MaxRows
  /\ users \in 0..MaxUsers
  /\ all_events = << >>
  /\ result = << >>
  /\ gen_pc = "loop"
  /\ gen_uuid = 0

NextGen ==
  \/ generate_session_events
  \/ generate_events

\* the generator keeps executing its next statement
SpecGen == InitGen /\ [][NextGen]_vars /\ WF_vars(NextGen)

\* ---------------------------------------------------------------- properties
\* number of non-blank lines of a batch
NonBlank(b) == Cardinality({ i \in 1..Len(b) : b[i].kind # "blank" })

\* index of the first record of b with the given event_id
FirstIndex(b, id) ==
  CHOOSE i \in 1..Len(b) :
    /\ b[i].kind = "rec" /\ b[i].event_id = id
    /\ \A j \in 1..(i - 1) : ~(b[j].kind = "rec" /\ b[j].event_id = id)

\* p has its batch open and has not yet left ingest_one_file
Active(p) == pc[p] \in {"loading", "recorded", "committed"}

\* C1: commit-before-archive. A batch is in the archive directory only if a
\* transaction holding all of its events and a status=success run record for
\* it has committed.
CommitBeforeArchive ==
  \A n \in DOMAIN archive :
    /\ BatchIds(archive[n]) \subseteq EventIds(raw_events)
    /\ \E r \in ingestion_runs :
         /\ r.file_name = n
         /\ r.status = "success"
         /\ r.rows_in_file = NonBlank(archive[n])

\* C1 witness: a batch with records is archived after an earlier process was
\* killed between its commit and archive_file
ArchivedAfterKill ==
  \E n \in DOMAIN archive :
    /\ << n, archive[n] >> \in killed
    /\ BatchIds(archive[n]) = {"A", "B"}

\* C2: crash recovery. A process killed after the commit and before
\* archive_file leaves the batch staged and all its events stored; the run that
\* loads the batch again commits rows_loaded = 0, rows_deduped = rows_in_file,
\* one more ingestion_runs row and no change to raw_events.
CrashRecovery ==
  [][ \A p \in Procs :
        /\ (pc[p] = "committed" /\ pc'[p] = "crashed") =>
             /\ Path(p) \in DOMAIN incoming'
             /\ incoming'[Path(p)] = f[p]
             /\ BatchIds(f[p]) \subseteq EventIds(raw_events')
        /\ ( /\ pc[p] = "recorded" /\ pc'[p] = "committed"
             /\ << Path(p), f[p] >> \in killed ) =>
             /\ txn_run[p] # {}
             /\ \A r \in txn_run[p] :
                  /\ r.rows_loaded = 0
                  /\ r.rows_in_file = NonBlank(f[p])
                  /\ r.rows_deduped = r.rows_in_file
                  /\ r.status = "success"
             /\ ingestion_runs' = ingestion_runs \cup txn_run[p]
             /\ Cardinality(ingestion_runs') = Cardinality(ingestion_runs) + 1
             /\ raw_events' = raw_events
    ]_vars

\* C2 witness: the three-record batch has been committed again, with nothing
\* loaded, after a process was killed between its commit and archive_file
ReloadedAfterKill ==
  \E p \in Procs :
    /\ pc[p] = "committed"
    /\ << Path(p), f[p] >> \in killed
    /\ Path(p) \in DOMAIN incoming
    /\ rows_in_file[p] = 3
    /\ rows_loaded[p] = 0
    /\ \E r \in ingestion_runs : r.run_id = run_id[p] /\ r.rows_deduped = 3

\* C3: dedup idempotence. A load of a batch whose content has already been
\* loaded and committed counts rows_loaded = 0 and adds no row to raw_events.
DedupIdempotence ==
  \A p \in Procs :
    (pc[p] \in {"loading", "recorded"} /\ f[p] \in loaded_once) =>
      /\ rows_loaded[p] = 0
      /\ txn[p] = {}
      /\ \A r \in txn_run[p] : r.rows_loaded = 0 /\ r.rows_deduped = r.rows_in_file

\* C3 witness: a second load of the three-record batch has reached its end
SecondLoadDone ==
  \E p \in Procs :
    /\ pc[p] = "recorded"
    /\ f[p] \in loaded_once
    /\ rows_in_file[p] = 3

\* C4: fail-fast atomicity. When a load ends in an exception, no row of that
\* attempt becomes visible in raw_events (then or later) and the batch is
\* neither removed from the staging directory nor archived.
FailFastAtomicity ==
  [][ \A p \in Procs :
        (pc[p] \in {"loading", "recorded"} /\ pc'[p] = "failed") =>
          /\ raw_events' = raw_events
          /\ ingestion_runs' = ingestion_runs
          /\ txn'[p] = {}
          /\ incoming' = incoming
          /\ archive' = archive
    ]_vars

\* C4 witness: the batch with an unparsable second line has failed after its
\* first record was inserted; the store is empty and the batch is staged
BadLineFailed ==
  \E p \in Procs :
    /\ pc[p] = "failed"
    /\ error[p] = "json.loads: JSONDecodeError"
    /\ run_id[p] = 1
    /\ Path(p) \in DOMAIN incoming
    /\ incoming[Path(p)] = << Rec("A", "p1"), Bad, Rec("B", "p1") >>
    /\ raw_events = {}
    /\ archive = << >>

\* the exceptions that leave the store reachable
StoreReachable(e) ==
  e \in {"open: FileNotFoundError", "json.loads: JSONDecodeError",
         "execute: ProgrammingError"}

\* C5: failed attempts are audited. An attempt that ended with a read, parse or
\* storage error while the store is reachable has exactly one ingestion_runs
\* row with status = failed and an error_message.
FailedAttemptsAudited ==
  \A p \in Procs :
    (pc[p] = "failed" /\ StoreReachable(error[p])) =>
      Cardinality({ r \in ingestion_runs :
                      /\ r.run_id = run_id[p]
                      /\ r.status = "failed"
                      /\ r.error_message # "None" }) = 1

\* C6: failure isolation. When main has ended with the store reachable, every
\* batch it discovered has been attempted, whatever the outcome of the
\* earlier ones.
FailureIsolation ==
  \A p \in Procs :
    (pc[p] = "done" \/ (pc[p] = "failed" /\ StoreReachable(error[p]))) =>
      idx[p] = Len(files[p])

\* C7: exact partition. Every ingestion_runs row, committed or written in an
\* open transaction, has rows_in_file = rows_loaded + rows_deduped with both
\* parts non-negative.
ExactPartition ==
  \A r \in ingestion_runs \cup UNION { txn_run[p] : p \in Procs } :
    /\ r.rows_in_file = r.rows_loaded + r.rows_deduped
    /\ r.rows_loaded >= 0
    /\ r.rows_deduped >= 0

\* C7 witness: a committed run that both loaded and deduplicated rows
MixedRunRecorded ==
  \E r \in ingestion_runs :
    r.rows_in_file = 3 /\ r.rows_loaded = 1 /\ r.rows_deduped = 2

\* C8: first-seen wins. raw_events never holds two rows with one event_id, a
\* committed row is never changed or removed, and the rows a commit adds are
\* those of the first record with that event_id in the file.
FirstSeenWins ==
  [][ /\ \A r1, r2 \in raw_events' : r1.event_id = r2.event_id => r1 = r2
      /\ raw_events \subseteq raw_events'
      /\ \A p \in Procs :
           (pc[p] = "recorded" /\ pc'[p] = "committed") =>
             \A r \in raw_events' \ raw_events :
               r = RowOf(f[p][FirstIndex(f[p], r.event_id)])
    ]_vars

\* C8 witness: both batches that share A and B with different payloads have
\* been loaded, and the store holds the rows of the one loaded first
LaterDuplicatesDropped ==
  /\ << Rec("B", "p2"), Rec("A", "p1") >> \in loaded_once
  /\ << Rec("A", "p1"), Rec("B", "p1"), Rec("A", "p2") >> \in loaded_once
  /\ raw_events = { [event_id |-> "A", payload |-> "p1"],
                    [event_id |-> "B", payload |-> "p2"] }

\* C9: staging exclusivity. No two Orchestrator instances have the same batch
\* open at once.
StagingExclusivity ==
  \A p, q \in Procs :
    (p # q /\ Active(p) /\ Active(q)) =>
      ~(Path(p) = Path(q) /\ f[p] = f[q])

\* C10: concurrent dedup. Two open transactions never both hold an inserted row
\* for one event_id, and no attempt ends in an error raised by the store
\* because two attempts insert the same event_ids.
ConcurrentDedup ==
  /\ \A p, q \in Procs :
       p # q => EventIds(txn[p]) \cap EventIds(txn[q]) = {}
  /\ \A p \in Procs : error[p] # "execute: DeadlockDetected"

\* C11: archive collision. archive_file called for a batch whose name is
\* already in the archive directory fails instead of overwriting: the archived
\* file and the incoming file are both still there afterwards.
ArchiveCollisionFailsLoudly ==
  [][ \A p \in Procs :
        ( /\ pc[p] = "committed" /\ pc'[p] # "committed" /\ pc'[p] # "crashed"
          /\ Path(p) \in DOMAIN incoming
          /\ Path(p) \in DOMAIN archive ) =>
          /\ pc'[p] = "failed"
          /\ archive' = archive
          /\ incoming' = incoming
    ]_vars

\* archive_file raised in this step of p
ArchiveFails(p) ==
  /\ pc[p] # "failed" /\ pc'[p] = "failed"
  /\ error'[p] \in {"move: OSError", "move: FileNotFoundError"}

\* C12: archive failure after a successful load. When archive_file fails, the
\* events of the batch stay committed, the attempt's run record is there once
\* with status = success and no failed record, and the failure reaches the
\* operator: the process ends with the exception and a non-zero exit status.
ArchiveFailureKeepsLoad ==
  [][ \A p \in Procs :
        ArchiveFails(p) =>
          /\ raw_events' = raw_events
          /\ BatchIds(f[p]) \subseteq EventIds(raw_events')
          /\ ingestion_runs' = ingestion_runs
          /\ Cardinality({ r \in ingestion_runs' : r.run_id = run_id[p] }) = 1
          /\ \A r \in ingestion_runs' :
               r.run_id = run_id[p] =>
                 /\ r.status = "success"
                 /\ r.rows_in_file = rows_in_file[p]
                 /\ r.rows_loaded = rows_loaded[p]
          /\ exit_status'[p] = 1
    ]_vars

\* C12 witness: the move failed after an attempt that loaded two rows
ArchiveFailedAfterLoad ==
  \E p \in Procs :
    /\ pc[p] = "failed"
    /\ error[p] = "move: OSError"
    /\ \E r \in ingestion_runs :
         r.run_id = run_id[p] /\ r.status = "success" /\ r.rows_loaded = 2
    /\ Cardinality(raw_events) >= 2

\* C13: a status=success run record implies the data. Every row that becomes
\* visible in ingestion_runs is the success record of an attempt whose batch
\* has, in the same step, all its event_ids in raw_events, and no event_id
\* ever leaves raw_events.
SuccessImpliesData ==
  [][ /\ \A r \in ingestion_runs' \ ingestion_runs :
           \E p \in Procs :
             /\ r.run_id = run_id[p]
             /\ r.status = "success"
             /\ r.file_name = Path(p)
             /\ r.rows_in_file = NonBlank(f[p])
             /\ BatchIds(f[p]) \subseteq EventIds(raw_events')
             /\ txn'[p] = {}
      /\ EventIds(raw_events) \subseteq EventIds(raw_events')
    ]_vars

\* C13 witness: a success record is visible for a batch whose two event_ids
\* one attempt inserted
RunWithItsData ==
  /\ \E r \in ingestion_runs : r.status = "success" /\ r.rows_loaded = 2
  /\ {"A", "B"} \subseteq EventIds(raw_events)

\* C14: load counts. When the attempt of a batch commits, the run record it
\* makes visible has rows_in_file = the number of non-blank lines, rows_loaded
\* = the number of distinct event_ids of the batch that the store did not
\* hold, rows_deduped = the rest and status = success; and when archive_file
\* returns, the batch is in the archive directory and no longer staged.
LoadCounts ==
  [][ \A p \in Procs :
        /\ (pc[p] = "recorded" /\ pc'[p] = "committed") =>
             /\ Cardinality(ingestion_runs' \ ingestion_runs) = 1
             /\ \A r \in ingestion_runs' \ ingestion_runs :
                  /\ r.run_id = run_id[p]
                  /\ r.file_name = Path(p)
                  /\ r.status = "success"
                  /\ r.rows_in_file = NonBlank(f[p])
                  /\ r.rows_loaded =
                       Cardinality(BatchIds(f[p]) \ EventIds(raw_events))
                  /\ r.rows_deduped = r.rows_in_file - r.rows_loaded
        /\ (pc[p] = "committed" /\ pc'[p] \in {"loop", "done"}) =>
             /\ Path(p) \in DOMAIN archive'
             /\ archive'[Path(p)] = f[p]
             /\ Path(p) \notin DOMAIN incoming'
    ]_vars

\* C14 witness: the batch A,B,A on a store without A and B was recorded with
\* 3, 2, 1 and archived
CountsThreeTwoOne ==
  \E r \in ingestion_runs :
    /\ r.status = "success"
    /\ r.rows_in_file = 3 /\ r.rows_loaded = 2 /\ r.rows_deduped = 1
    /\ r.file_name \in DOMAIN archive
    /\ Len(archive[r.file_name]) = 3
    /\ BatchIds(archive[r.file_name]) = {"A", "B"}

\* the failures an attempt can meet once its batch has been read to the end
AfterLoadErrors ==
  {"commit: OperationalError", "move: OSError", "move: FileNotFoundError"}

\* C15: blank lines and empty batches. Reading a blank line only moves to the
\* next line: nothing is counted, inserted or raised. A batch without a
\* non-blank line never fails in its load, its run record is 0, 0, 0 with
\* status = success and no event row, and archive_file moves it to the archive
\* directory.
BlankLinesSkipped ==
  [][ \A p \in Procs :
        /\ ( /\ pc[p] = "loading" /\ pos[p] < Len(f[p])
             /\ NextLine(p).kind = "blank"
             /\ pc'[p] # "crashed"
             /\ (pc'[p] # pc[p] \/ pos'[p] # pos[p]) ) =>
             /\ pc'[p] = "loading"
             /\ pos'[p] = pos[p] + 1
             /\ rows_in_file'[p] = rows_in_file[p]
             /\ rows_loaded'[p] = rows_loaded[p]
             /\ txn'[p] = txn[p]
        /\ (Active(p) /\ NonBlank(f[p]) = 0) =>
             /\ rows_in_file[p] = 0 /\ rows_loaded[p] = 0 /\ txn[p] = {}
             /\ pc'[p] = "failed" => error'[p] \in AfterLoadErrors
             /\ (pc[p] = "recorded" /\ pc'[p] = "committed") =>
                  /\ raw_events' = raw_events
                  /\ ingestion_runs' = ingestion_runs \cup
                       {[run_id |-> run_id[p], file_name |-> Path(p),
                         rows_in_file |-> 0, rows_loaded |-> 0,
                         rows_deduped |-> 0, status |-> "success",
                         error_message |-> "None"]}
             /\ (pc[p] = "committed" /\ pc'[p] \in {"loop", "done"}) =>
                  /\ Path(p) \in DOMAIN archive'
                  /\ archive'[Path(p)] = f[p]
                  /\ Path(p) \notin DOMAIN incoming'
    ]_vars

\* C15 witness: a batch of blank lines only is recorded with 0, 0, 0 and is
\* in the archive directory
EmptyBatchIngested ==
  \E r \in ingestion_runs :
    /\ r.status = "success"
    /\ r.rows_in_file = 0 /\ r.rows_loaded = 0 /\ r.rows_deduped = 0
    /\ r.file_name \in DOMAIN archive
    /\ NonBlank(archive[r.file_name]) = 0
    /\ r.file_name \notin DOMAIN incoming

\* the recorded rows of the attempt with the given run_id
RowsOf(rid) == { r \in ingestion_runs : r.run_id = rid }

\* C16: append-only audit. No two recorded rows share a run_id, so an attempt
\* has at most one row and a retry of a batch has a run_id of its own; two
\* attempts in progress have different run_ids and an attempt that has not
\* committed has no row yet; and every step keeps all recorded rows as they
\* are and adds at most one.
AppendOnlyAudit ==
  /\ [] /\ \A r1, r2 \in ingestion_runs : r1.run_id = r2.run_id => r1 = r2
        /\ \A p \in Procs :
             /\ pc[p] \in {"loading", "recorded"} => RowsOf(run_id[p]) = {}
             /\ Active(p) =>
                  \A q \in Procs \ {p} : Active(q) => run_id[q] # run_id[p]
  /\ [][ /\ ingestion_runs \subseteq ingestion_runs'
         /\ Cardinality(ingestion_runs' \ ingestion_runs) <= 1
       ]_vars

\* C16 witness: one batch has two recorded attempts, under two run_ids
RetryHasNewRunId ==
  \E r1, r2 \in ingestion_runs :
    /\ r1.file_name = r2.file_name
    /\ r1.run_id # r2.run_id
    /\ r2.rows_in_file = r1.rows_in_file
    /\ r1.rows_in_file > 0

\* C17: exit status. An invocation of main that ended has exit status 1 when
\* an attempt of it raised and 0 when none did, the start on an empty staging
\* directory included; and the step in which an attempt raises, in its load or
\* in archive_file, ends the invocation with status 1.
ExitStatus ==
  /\ [] \A p \in Procs :
          /\ pc[p] = "failed" => (exit_status[p] = 1 /\ error[p] # "")
          /\ pc[p] = "done" => (exit_status[p] = 0 /\ error[p] = "")
          /\ error[p] # "" => pc[p] = "failed"
  /\ [][ \A p \in Procs :
           (error'[p] # error[p] /\ error'[p] # "") =>
             (pc'[p] = "failed" /\ exit_status'[p] = 1)
       ]_vars

\* C17 witness: one invocation found nothing staged and ended with status 0,
\* another ended with status 1 on an archive failure
BothExitStatuses ==
  \E p, q \in Procs :
    /\ pc[p] = "done" /\ files[p] = << >> /\ exit_status[p] = 0
    /\ pc[q] = "failed" /\ error[q] = "move: OSError" /\ exit_status[q] = 1

RECURSIVE SumLoaded(_)
\* sum of rows_loaded over a set of ingestion_runs rows
SumLoaded(runs) ==
  IF runs = {} THEN 0
  ELSE LET r == CHOOSE x \in runs : TRUE
       IN  r.rows_loaded + SumLoaded(runs \ {r})

\* C18: audit counts agree with the store. From an empty store, in every
\* reachable state the sum of rows_loaded over the committed ingestion_runs
\* rows is the number of rows of raw_events.
AuditCountsAgree == SumLoaded(ingestion_runs) = Cardinality(raw_events)

\* C18 witness: two committed attempts inserted one event each
TwoRunsTwoEvents ==
  /\ Cardinality(raw_events) = 2
  /\ \E r1, r2 \in ingestion_runs :
       /\ r1.run_id # r2.run_id
       /\ r1.rows_loaded = 1 /\ r2.rows_loaded = 1
       /\ r2.rows_deduped = 1

\* every line of the batch is blank or a record with an event_id
ValidBatch(b) == \A i \in 1..Len(b) : b[i].kind \in {"blank", "rec"}

\* all staged batches can be read and parsed
AllStagedValid == \A n \in DOMAIN incoming : ValidBatch(incoming[n])

\* the success rows recorded for the file of the given name
SuccessRowsOf(n) ==
  { r \in ingestion_runs : r.file_name = n /\ r.status = "success" }

\* C19: progress without failures. An invocation of main over valid batches
\* in which no step fails ends; when it has ended nothing is staged, every
\* batch it discovered is in the archive directory with exactly one success
\* run record, and the attempts were made in the order of the file names.
ProgressWithoutFailures ==
  /\ (pc[1] = "idle" /\ AllStagedValid) ~> (pc[1] = "done")
  /\ [] ( pc[1] = "done" =>
            /\ DOMAIN incoming = {}
            /\ \A i \in 1..Len(files[1]) :
                 /\ files[1][i] \in DOMAIN archive
                 /\ Cardinality(SuccessRowsOf(files[1][i])) = 1
            /\ \A r1, r2 \in ingestion_runs :
                 r1.file_name < r2.file_name => r1.run_id < r2.run_id )

\* C19 witness: an invocation that discovered two batches has ended
TwoBatchesDone ==
  /\ pc[1] = "done"
  /\ Len(files[1]) = 2
  /\ Cardinality(ingestion_runs) = 2
  /\ DOMAIN archive = {1, 2}

\* position of an event name in the funnel
Stage(name) ==
  CASE name = "open" -> 1
    [] name = "view" -> 2
    [] name = "cart" -> 3
    [] name = "purchase" -> 4

\* what the claim says of a returned list: it has rows events, events with
\* one event_id are equal in every field, and within a session the stages do
\* not go back and none appears before the stage that precedes it
OutputWellFormed ==
  /\ Len(result) = rows
  /\ \A i, j \in 1..Len(result) :
       result[i].event_id = result[j].event_id => result[i] = result[j]
  /\ \A i, j \in 1..Len(result) :
       (i < j /\ result[i].session_id = result[j].session_id) =>
         Stage(result[i].event_name) <= Stage(result[j].event_name)
  /\ \A j \in 1..Len(result) :
       Stage(result[j].event_name) > 1 =>
         \E i \in 1..(j - 1) :
           /\ result[i].session_id = result[j].session_id
           /\ Stage(result[i].event_name) = Stage(result[j].event_name) - 1

\* every generated session contributes at least one event
SessionsGrow ==
  [][ gen_uuid' # gen_uuid => Len(all_events') > Len(all_events) ]_vars

\* C20 as stated: for every rows >= 0, generate_events terminates and returns
\* exactly rows events; events sharing an event_id are identical, and within
\* a session the names follow the funnel order without a skipped stage.
GeneratorOutput ==
  /\ (gen_pc = "loop") ~> (gen_pc = "returned")
  /\ [] (gen_pc = "returned" => OutputWellFormed)
  /\ SessionsGrow

\* C20 amended: the same for every rows >= 0 when users >= 1 or rows = 0;
\* with users < 1 and rows >= 1 random.randint(1, users) raises ValueError.
GeneratorOutputWithUsers ==
  /\ (gen_pc = "loop" /\ (users >= 1 \/ rows = 0)) ~> (gen_pc = "returned")
  /\ [] (gen_pc = "returned" => OutputWellFormed)
  /\ [] (gen_pc = "raised" => (users < 1 /\ rows >= 1))
  /\ SessionsGrow

\* C20 witness: a call returned rows = 3 events cut out of a longer list, two
\* of them an event and its duplicate, the third of another stage
TruncatedWithDuplicate ==
  /\ gen_pc = "returned"
  /\ rows = 3
  /\ Len(all_events) > rows
  /\ Len(result) = 3
  /\ result[1] = result[2]
  /\ result[3].session_id = result[1].session_id
  /\ result[3].event_name = "view"

====
